---- MODULE Spec2Model ----
(***************************************************************************)
(* HRV x TCM report pipeline: HRVMeasures (core/measures.py), HRVLevels    *)
(* (core/levels.py), the quadrant classifier (code/quadrant.py), the       *)
(* phenotype composer (code/phenotypes.py), the report composer            *)
(* (code/summary.py) and the XML front end (code/xml_parser.py).           *)
(*                                                                         *)
(* Numbers.  Python floats are modelled in fixed point:                    *)
(*   - raw fields (HR, SDNN, RV, TP, LF, HF, ...) are integers in tenths   *)
(*     (63.7 is 637, 1861 is 18610);                                       *)
(*   - logarithms and everything derived from them are integers in units   *)
(*     of 1/10000 (6.5 is 65000, 5.4999 is 54999).                         *)
(* Strings.  Report texts are sequences of tokens; every distinct literal  *)
(* of the source is one distinct token, equal literals are equal tokens.   *)
(* Labels: Yang = "陽", Yin = "陰", Replete = "實", Deficient = "虛",      *)
(* Balanced = "平", Unknown = "未知", Yang-Excess = "陽實型", ...           *)
(***************************************************************************)
EXTENDS Integers, Sequences, FiniteSets, TLC

\* ------------------------------------------------------------------------
\* Optional values: None is the empty tuple, a present value v is <<v>>
\* ------------------------------------------------------------------------
None == <<>>
Some(v) == <<v>>
Val(o) == o[1]

\* ------------------------------------------------------------------------
\* Fixed point
\* ------------------------------------------------------------------------
\* raw units per 1.0
RawScale == 10
\* logarithm units per 1.0
LnScale == 10000
\* ln 2 in units of 1/100000
Ln2e5 == 69315

Abs(x) == IF x < 0 THEN -x ELSE x

RECURSIVE Log2Floor(_)
\* greatest e with 2^e <= n, n >= 1
Log2Floor(n) == IF n < 2 THEN 0 ELSE 1 + Log2Floor(n \div 2)

RECURSIVE Pow2(_)
Pow2(e) == IF e = 0 THEN 1 ELSE 2 * Pow2(e - 1)

RECURSIVE AtanhSum(_, _, _)
\* term/k + term z2/(k+2) + ... up to the ninth power
AtanhSum(term, z2, k) ==
    IF k > 9 THEN 0
    ELSE term \div k + AtanhSum((term * z2) \div LnScale, z2, k + 2)

\* atanh(z) = z + z^3/3 + z^5/5 + z^7/7 + z^9/9, z in units of 1/LnScale
Atanh(z) == AtanhSum(z, (z * z) \div LnScale, 1)

\* ln(2^e * m) for n = 2^e * m = p * m, 1 <= m < 2
LnOf(n, e, p) == (e * Ln2e5) \div 10 + 2 * Atanh(((n - p) * LnScale) \div (n + p))

LnPow(n, e) == LnOf(n, e, Pow2(e))

\* math.log(n) for an integer n >= 1, in units of 1/LnScale:
\*   n = 2^e * m, 1 <= m < 2;  ln n = e ln 2 + 2 atanh((m-1)/(m+1))
LnInt(n) == LnPow(n, Log2Floor(n))

\* math.log(x) for a raw value x > 0 held in tenths
MathLog(x) == LnInt(x) - LnInt(RawScale)

\* eps = 1e-9 = 10^(-EpsExp); math.log(eps) = -EpsExp * ln 10
EpsExp == 9
LnEps == -(EpsExp * LnInt(10))

\* safe_ln(x): float(x), then x <= 0 becomes eps; the dataclass fields it is
\* applied to are always numbers here
safe_ln(x) == IF x <= 0 THEN LnEps ELSE MathLog(x)

RECURSIVE IsqrtFrom(_, _)
IsqrtFrom(n, k) == IF (k + 1) * (k + 1) > n THEN k ELSE IsqrtFrom(n, k + 1)

RECURSIVE Isqrt(_)
\* floor(sqrt(n)), by quartering
Isqrt(n) == IF n < 4 THEN IsqrtFrom(n, 0) ELSE IsqrtFrom(n, 2 * Isqrt(n \div 4))

\* ------------------------------------------------------------------------
\* core/measures.py: HRVMeasures
\* ------------------------------------------------------------------------
\* the dataclass fields, all defaulting to 0.0
Fields == {"HR", "SDNN", "RV", "ER", "N", "TP", "LF", "HF", "NN", "Balance"}

Properties == {"lnTP", "lnLF", "lnHF", "lnLFHF", "TPQ", "lnTPQ", "X", "Y",
               "is_in_healthy_zone", "healthy_zone_distance"}

\* An object is [cls, attrs]: an HRVMeasures instance holds the ten fields;
\* any other object ("object") holds whatever attributes it was given.
NoObject == [cls |-> "NoneType", attrs |-> [k \in {} |-> 0]]

\* HRVMeasures(**kwargs): the generated __init__ accepts the field names only
InitAccepts(kwargs) == DOMAIN kwargs \subseteq Fields

HRVMeasures(kwargs) ==
    [cls |-> "HRVMeasures",
     attrs |-> [f \in Fields |-> IF f \in DOMAIN kwargs THEN kwargs[f] ELSE 0]]

lnTP(m) == safe_ln(m.attrs["TP"])
lnLF(m) == safe_ln(m.attrs["LF"])
lnHF(m) == safe_ln(m.attrs["HF"])
\* lnLFHF with the operands exchanged
lnLFHF_exchanged(m) == lnHF(m) - lnLF(m)

lnLFHF(m) == lnLF(m) - lnHF(m)
X(m) == lnLFHF(m)
Y(m) == lnTP(m)

\* mu of the healthy zone
HzMu == 60000
\* half width of the healthy zone
HzTol == 5000

is_in_healthy_zone(m) == Abs(lnLFHF(m)) <= HzTol /\ Abs(lnTP(m) - HzMu) <= HzTol

\* sqrt(dx*dx + dy*dy), carried at 1/100 (the squares of the 1/10000 values
\* do not fit the integer width), returned in units of 1/LnScale
Hypot(dx, dy) == Isqrt(dx * dx + dy * dy)

healthy_zone_distance(m) ==
    Hypot(Abs(X(m) - 0) \div 100, Abs(Y(m) - HzMu) \div 100) * 100

\* getattr(obj, name, None)
HasAttr(obj, name) ==
    IF obj.cls = "HRVMeasures" THEN name \in Fields \cup Properties
    ELSE name \in DOMAIN obj.attrs

GetAttr(obj, name) ==
    IF ~HasAttr(obj, name) THEN None
    ELSE IF obj.cls = "HRVMeasures" /\ name \in {"lnTP", "Y"} THEN Some(lnTP(obj))
    ELSE IF obj.cls = "HRVMeasures" /\ name \in {"lnLFHF", "X"} THEN Some(lnLFHF(obj))
    ELSE IF obj.cls = "HRVMeasures" /\ name = "healthy_zone_distance"
         THEN Some(healthy_zone_distance(obj))
    ELSE IF obj.cls = "HRVMeasures" /\ name = "is_in_healthy_zone"
         THEN Some(is_in_healthy_zone(obj))
    ELSE IF obj.cls = "HRVMeasures" /\ name = "lnLF" THEN Some(lnLF(obj))
    ELSE IF obj.cls = "HRVMeasures" /\ name = "lnHF" THEN Some(lnHF(obj))
    ELSE Some(obj.attrs[name])

\* ------------------------------------------------------------------------
\* core/levels.py: HRVLevels
\* ------------------------------------------------------------------------
TpHigh == 65000
TpMid == 55000
RvHigh == 15000
RvMid == 8000
SdnnHigh == 700
SdnnMid == 500

\* tp_level with exclusive bounds
tp_level_exclusive(x) ==
    IF x > TpHigh THEN <<"High", "(energy sufficient)">>
    ELSE IF x > TpMid THEN <<"Mid", "(ordinary)">>
    ELSE <<"Low", "(energy lacking)">>

\* a level string is its first character followed by the gloss
tp_level(x) ==
    IF x >= TpHigh THEN <<"High", "(energy sufficient)">>
    ELSE IF x >= TpMid THEN <<"Mid", "(ordinary)">>
    ELSE <<"Low", "(energy lacking)">>

rv_level(RV) ==
    IF RV >= RvHigh THEN <<"High", "(recovers well)">>
    ELSE IF RV >= RvMid THEN <<"Mid", "(ordinary)">>
    ELSE <<"Low", "(recovers weakly)">>

sdnn_level(SDNN) ==
    IF SDNN >= SdnnHigh THEN <<"High", "(elastic)">>
    ELSE IF SDNN >= SdnnMid THEN <<"Mid", "(normal)">>
    ELSE <<"Low", "(inelastic)">>

\* all_levels reads measures.lnTP, measures.RV, measures.SDNN directly:
\* a missing attribute raises AttributeError
AllLevelsRaises(m) == \E a \in {"lnTP", "RV", "SDNN"} : ~HasAttr(m, a)

all_levels(m) ==
    [TP_Level   |-> tp_level(Val(GetAttr(m, "lnTP"))),
     RV_Level   |-> rv_level(Val(GetAttr(m, "RV"))),
     SDNN_Level |-> sdnn_level(Val(GetAttr(m, "SDNN")))]

\* ------------------------------------------------------------------------
\* code/quadrant.py
\* ------------------------------------------------------------------------
YinYangThreshold == 0
Mu == 60000
Tol == 5000

\* classify_yin_yang with the threshold itself counted as yang
classify_yin_yang_inclusive(ln_lfhf) ==
    IF ln_lfhf = None THEN "Unknown"
    ELSE IF Val(ln_lfhf) >= YinYangThreshold THEN "Yang" ELSE "Yin"

classify_yin_yang(ln_lfhf) ==
    IF ln_lfhf = None THEN "Unknown"
    ELSE IF Val(ln_lfhf) > YinYangThreshold THEN "Yang" ELSE "Yin"

\* classify_xu_shi with the band edges counted as balanced
classify_xu_shi_exclusive(ln_tp, mu, tol) ==
    IF ln_tp = None THEN "Unknown"
    ELSE IF Val(ln_tp) > mu + tol THEN "Replete"
    ELSE IF Val(ln_tp) < mu - tol THEN "Deficient"
    ELSE "Balanced"

classify_xu_shi(ln_tp, mu, tol) ==
    IF ln_tp = None THEN "Unknown"
    ELSE IF Val(ln_tp) >= mu + tol THEN "Replete"
    ELSE IF Val(ln_tp) <= mu - tol THEN "Deficient"
    ELSE "Balanced"

\* classify_quadrant that gives up on an unknown axis before it looks for the
\* balanced band
classify_quadrant_unknown_first(yin_yang, xu_shi) ==
    IF yin_yang = "Unknown" \/ xu_shi = "Unknown" THEN "Unknown"
    ELSE IF yin_yang = "Yang" /\ xu_shi = "Replete" THEN "Yang-Excess"
    ELSE IF yin_yang = "Yang" /\ xu_shi = "Deficient" THEN "Yang-Deficient"
    ELSE IF yin_yang = "Yin" /\ xu_shi = "Replete" THEN "Yin-Excess"
    ELSE IF yin_yang = "Yin" /\ xu_shi = "Deficient" THEN "Yin-Deficient"
    ELSE IF xu_shi = "Balanced" THEN "Balanced"
    ELSE "Unknown"

classify_quadrant(yin_yang, xu_shi) ==
    IF yin_yang = "Yang" /\ xu_shi = "Replete" THEN "Yang-Excess"
    ELSE IF yin_yang = "Yang" /\ xu_shi = "Deficient" THEN "Yang-Deficient"
    ELSE IF yin_yang = "Yin" /\ xu_shi = "Replete" THEN "Yin-Excess"
    ELSE IF yin_yang = "Yin" /\ xu_shi = "Deficient" THEN "Yin-Deficient"
    ELSE IF xu_shi = "Balanced" THEN "Balanced"
    ELSE "Unknown"

\* the dict analyze_quadrant returns, from the two attributes it classifies
quad_info_of(m, ln_tp, ln_lfhf, yin_yang, xu_shi) ==
    [yin_yang |-> yin_yang,
     xu_shi   |-> xu_shi,
     quadrant |-> classify_quadrant(yin_yang, xu_shi),
     X        |-> IF HasAttr(m, "X") THEN GetAttr(m, "X") ELSE ln_lfhf,
     Y        |-> IF HasAttr(m, "Y") THEN GetAttr(m, "Y") ELSE ln_tp,
     healthy_zone_flag     |-> GetAttr(m, "is_in_healthy_zone"),
     healthy_zone_distance |-> GetAttr(m, "healthy_zone_distance")]

\* analyze_attrs that classifies the vertical axis with tol = 0
analyze_attrs_zero_tol(m, ln_tp, ln_lfhf) ==
    quad_info_of(m, ln_tp, ln_lfhf, classify_yin_yang(ln_lfhf),
                 classify_xu_shi(ln_tp, Mu, 0))

\* yin_yang = classify_yin_yang(ln_lfhf); xu_shi = classify_xu_shi(ln_tp, mu, tol)
analyze_attrs(m, ln_tp, ln_lfhf) ==
    quad_info_of(m, ln_tp, ln_lfhf, classify_yin_yang(ln_lfhf),
                 classify_xu_shi(ln_tp, Mu, Tol))

\* analyze_quadrant that reads lnLF where it should read lnLFHF
analyze_quadrant_lnLF(m) == analyze_attrs(m, GetAttr(m, "lnTP"), GetAttr(m, "lnLF"))

analyze_quadrant(m) == analyze_attrs(m, GetAttr(m, "lnTP"), GetAttr(m, "lnLFHF"))

\* ------------------------------------------------------------------------
\* code/phenotypes.py
\* ------------------------------------------------------------------------
\* dict.get(key, default)
DictGet(d, key, default) == IF key \in DOMAIN d THEN d[key] ELSE default

\* (level_str or "").strip()[:1]
level_core(level_str) ==
    IF Len(level_str) = 0 THEN <<>> ELSE SubSeq(level_str, 1, 1)

QuadrantBase(quadrant) ==
    IF quadrant = "Yang-Excess" THEN
        <<"tense or irritable, moods swing", "tight neck and shoulders, heavy head",
          "light sleep, wakes at night", "sweats a lot or feels hot">>
    ELSE IF quadrant = "Yang-Deficient" THEN
        <<"cold hands and feet, stamina fades", "hard to get up, tired on waking",
          "short of breath after little activity", "more alert in the evening">>
    ELSE IF quadrant = "Yin-Excess" THEN
        <<"body feels heavy, reluctant to move", "swollen legs or ankles",
          "bloated after eating", "weight hard to lose, slow metabolism">>
    ELSE IF quadrant = "Yin-Deficient" THEN
        <<"feels hot and restless in the evening", "sleep easily disturbed",
          "dry mouth, eyes or throat", "hard stools, constipation">>
    ELSE IF quadrant = "Balanced" THEN
        <<"daytime energy adequate", "mood mostly stable", "sleep fair">>
    ELSE <<"data insufficient to describe the constitution">>

TpStatement(tp) ==
    IF tp = <<"High">> THEN <<"usable energy sufficient">>
    ELSE IF tp = <<"Mid">> THEN <<"daily load fine, recovery slows after late nights">>
    ELSE IF tp = <<"Low">> THEN <<"a little more work already tires">>
    ELSE <<>>

RvStatement(rv) ==
    IF rv = <<"High">> THEN <<"recovers by next day with enough sleep">>
    ELSE IF rv = <<"Mid">> THEN <<"ordinary recovery, needs longer after busy days">>
    ELSE IF rv = <<"Low">> THEN <<"still tired the day after, recovers slowly">>
    ELSE <<>>

SdnnStatement(sd) ==
    IF sd = <<"High">> THEN <<"adapts well to change, room to regulate">>
    ELSE IF sd = <<"Mid">> THEN <<"mostly stable, long stress may accumulate">>
    ELSE IF sd = <<"Low">> THEN <<"sensitive to stress and schedule changes">>
    ELSE <<>>

HrFast == 850
HrRestLow == 600
HrRestHigh == 800
HrSlowFloor == 400

\* HrStatement whose resting range has no upper end
HrStatement_open_range(hr) ==
    IF hr > HrFast THEN <<"heart rate fast at measurement, tense or busy mind">>
    ELSE IF HrRestLow <= hr
         THEN <<"heart rate in the resting range at measurement">>
    ELSE IF HrSlowFloor < hr /\ hr < HrRestLow
         THEN <<"heart rate slow at measurement, possibly trained">>
    ELSE <<>>

\* if hr > 85 / elif 60 <= hr <= 80 / elif 40 < hr < 60, and no else
HrStatement(hr) ==
    IF hr > HrFast THEN <<"heart rate fast at measurement, tense or busy mind">>
    ELSE IF HrRestLow <= hr /\ hr <= HrRestHigh
         THEN <<"heart rate in the resting range at measurement">>
    ELSE IF HrSlowFloor < hr /\ hr < HrRestLow
         THEN <<"heart rate slow at measurement, possibly trained">>
    ELSE <<>>

\* the statements in the order they are appended, before deduplication
\* float(getattr(measures, "HR", 0.0))
HrOf(m) == IF HasAttr(m, "HR") THEN Val(GetAttr(m, "HR")) ELSE 0

phenos_raw(m, quadrant, level_info) ==
    QuadrantBase(quadrant)
      \o TpStatement(level_core(DictGet(level_info, "TP_Level", <<>>)))
      \o RvStatement(level_core(DictGet(level_info, "RV_Level", <<>>)))
      \o SdnnStatement(level_core(DictGet(level_info, "SDNN_Level", <<>>)))
      \o HrStatement(HrOf(m))

RECURSIVE unique_loop(_, _, _)
\* for p in phenos: if p not in seen: seen.add(p); unique_phenos.append(p)
unique_loop(phenos, seen, unique_phenos) ==
    IF phenos = <<>> THEN unique_phenos
    ELSE IF Head(phenos) \in seen
         THEN unique_loop(Tail(phenos), seen, unique_phenos)
    ELSE unique_loop(Tail(phenos), seen \cup {Head(phenos)},
                     Append(unique_phenos, Head(phenos)))

RECURSIVE Reverse(_)
Reverse(q) == IF q = <<>> THEN <<>> ELSE Append(Reverse(Tail(q)), Head(q))

\* deduplication through a set, which does not keep the order of the list
unique_unordered(phenos) == Reverse(unique_loop(phenos, {}, <<>>))

unique(phenos) == unique_loop(phenos, {}, <<>>)

generate_phenotypes(m, quadrant, level_info) ==
    unique(phenos_raw(m, quadrant, level_info))

\* ------------------------------------------------------------------------
\* code/summary.py
\* ------------------------------------------------------------------------
Quadrants == {"Yang-Excess", "Yang-Deficient", "Yin-Excess", "Yin-Deficient",
              "Balanced", "Unknown"}

QUADRANT_DESC ==
    [q \in Quadrants |-> <<"description of", q>>]

\* The advice lists are list objects created when the module is loaded and
\* kept on the heap; QUADRANT_ADVICE holds a reference to each (the reference
\* of a list is named after the key it is stored at).  AdviceLiteral is the
\* content the lists are created with.
QUADRANT_ADVICE == [q \in Quadrants |-> [ref |-> q]]

AdviceLiteral ==
    [q \in Quadrants |->
        IF q = "Unknown" THEN <<"measure again when settled, or track longer">>
        ELSE IF q = "Yang-Excess" THEN <<"watch mood and blood pressure", "schedule relaxation">>
        ELSE IF q = "Yang-Deficient" THEN <<"regular schedule, daylight", "light to moderate exercise">>
        ELSE IF q = "Yin-Excess" THEN <<"less sweet, oily and cold food", "more activity and sweating">>
        ELSE IF q = "Yin-Deficient" THEN <<"avoid late nights and pressure", "gentle stretching and breathing">>
        ELSE <<"keep up routine and exercise", "watch stress and sleep">>]

HrLow == 600
HrHigh == 800

interpret_hr(hr) ==
    IF hr = None THEN <<"heart rate data insufficient">>
    ELSE IF Val(hr) < HrLow THEN <<"heart rate low, maybe trained or parasympathetic">>
    ELSE IF HrLow <= Val(hr) /\ Val(hr) <= HrHigh THEN <<"heart rate in resting range, steady">>
    ELSE <<"heart rate fast, tense or under pressure">>

HzNear == 7000
HzMild == 15000

interpret_healthy_zone(dist) ==
    IF dist = None THEN <<"distance to healthy zone unavailable">>
    ELSE IF Val(dist) < HzNear THEN <<"very close to the healthy zone">>
    ELSE IF Val(dist) < HzMild THEN <<"slightly off the healthy zone">>
    ELSE <<"clearly off the healthy zone">>

\* Python truthiness of an optional string
Truthy(s) == s /= None /\ Val(s) /= <<>>

RECURSIVE JoinNonEmpty(_)
\* " ".join([s for s in parts if s])
JoinNonEmpty(parts) ==
    IF parts = <<>> THEN <<>>
    ELSE LET rest == JoinNonEmpty(Tail(parts))
         IN  IF Head(parts) = <<>> THEN rest
             ELSE IF rest = <<>> THEN Head(parts)
             ELSE Head(parts) \o <<" ">> \o rest

\* generate_summary that formats bmi without looking whether it is None
generate_summary_raises_unguarded(m, name, age, sex, bmi) ==
    AllLevelsRaises(m) \/ bmi = None

\* generate_summary raises when all_levels does (AttributeError); the optional
\* parts of the text are guarded and never raise
generate_summary_raises(m, name, age, sex, bmi) == AllLevelsRaises(m)

\* step 3: the title
title_of(quadrant) ==
    IF quadrant = "Unknown" THEN <<"tendency: pending">> ELSE <<"tendency: ", quadrant>>

\* step 4: the parts of the summary text
basic_intro(name, age, sex) ==
    (IF Truthy(name) THEN Val(name) \o <<"(">> ELSE <<>>)
    \o (IF Truthy(sex) THEN Val(sex) \o <<", ">> ELSE <<>>)
    \o (IF age /= None THEN <<"about ", ToString(Val(age)), " years, ">> ELSE <<>>)
    \o <<"results of this measurement:">>

bmi_part(bmi) ==
    IF bmi /= None THEN <<"BMI is about ", ToString(Val(bmi)), ".">> ELSE <<>>

summary_parts(m, quad_info, level_info, name, age, sex, bmi) ==
    << basic_intro(name, age, sex),
       <<"tendency by ln(TP) and ln(LF/HF): ", quad_info.quadrant, quad_info.yin_yang,
         quad_info.xu_shi>>
         \o DictGet(QUADRANT_DESC, quad_info.quadrant, QUADRANT_DESC["Unknown"]),
       <<"TP: ">> \o level_info.TP_Level \o <<"RV: ">> \o level_info.RV_Level
         \o <<"SDNN: ">> \o level_info.SDNN_Level,
       interpret_hr(GetAttr(m, "HR")),
       interpret_healthy_zone(quad_info.healthy_zone_distance),
       bmi_part(bmi) >>

\* steps 3 to 6 and the returned dict, from the results of steps 1 and 2
compose_report(m, quad_info, level_info, name, age, sex, bmi) ==
    [title      |-> title_of(quad_info.quadrant),
     summary    |-> JoinNonEmpty(summary_parts(m, quad_info, level_info, name, age, sex, bmi)),
     phenotypes |-> generate_phenotypes(m, quad_info.quadrant, level_info),
     advice     |-> DictGet(QUADRANT_ADVICE, quad_info.quadrant, QUADRANT_ADVICE["Unknown"]),
     meta       |-> [quadrant |-> quad_info.quadrant, yin_yang |-> quad_info.yin_yang,
                     xu_shi |-> quad_info.xu_shi,
                     TP_Level |-> level_info.TP_Level, RV_Level |-> level_info.RV_Level,
                     SDNN_Level |-> level_info.SDNN_Level,
                     HR |-> GetAttr(m, "HR"),
                     lnTP |-> GetAttr(m, "lnTP"),
                     lnLFHF |-> GetAttr(m, "lnLFHF"),
                     healthy_zone_distance |-> quad_info.healthy_zone_distance]]

generate_summary(m, name, age, sex, bmi) ==
    compose_report(m, analyze_quadrant(m), all_levels(m), name, age, sex, bmi)

\* ------------------------------------------------------------------------
\* code/xml_parser.py
\* ------------------------------------------------------------------------
\* An attribute text is <<"num", v>> (a decimal literal: v in tenths for the
\* measurements, heights and weights, in units for Age and N) or <<"str", t>>
\* (any other text, t its tokens; <<"str", <<>> >> is the blank text).
IsNum(t) == t[1] = "num"

\* attr.get(key, "").strip()
get_str(attr, key) ==
    IF key \notin DOMAIN attr THEN <<>>
    ELSE IF IsNum(attr[key]) THEN <<ToString(attr[key][2])>>
    ELSE attr[key][2]

\* _get_float: absent, blank and unparseable texts give the default
get_float(attr, key, default) ==
    IF key \notin DOMAIN attr THEN default
    ELSE IF IsNum(attr[key]) THEN attr[key][2]
    ELSE default

\* _get_int: absent and blank give None, unparseable gives the default
get_int(attr, key, default) ==
    IF key \notin DOMAIN attr THEN None
    ELSE IF IsNum(attr[key]) THEN Some(attr[key][2])
    ELSE IF attr[key][2] = <<>> THEN None
    ELSE Some(default)

\* x or None
OrNone(s) == IF s = <<>> THEN None ELSE Some(s)

\* weight / ((height / 100) ** 2), in hundredths; height (cm) and weight (kg)
\* in tenths
Bmi(height, weight) == (((weight * 100000) \div height) * 100) \div height

bmi_of(height, weight) ==
    IF height > 0 /\ weight > 0 THEN Some(Bmi(height, weight)) ELSE None

meta_of(attr, height, weight) ==
    [name   |-> OrNone(get_str(attr, "Name")),
     sex    |-> OrNone(get_str(attr, "Sex")),
     age    |-> get_int(attr, "Age", 0),
     height |-> IF height = 0 THEN None ELSE Some(height),
     weight |-> IF weight = 0 THEN None ELSE Some(weight),
     bmi    |-> bmi_of(height, weight),
     id     |-> OrNone(get_str(attr, "ID")),
     test_time |-> OrNone(get_str(attr, "TestTime")),
     test_date |-> OrNone(get_str(attr, "TestDate")),
     raw_attr  |-> attr]

parse_meta(attr) ==
    meta_of(attr, get_float(attr, "Height", 0), get_float(attr, "Weight", 0))

\* the keyword arguments parse_hrv_xml builds: SD is read into SDNN, VL is
\* not passed on
hrv_kwargs(attr) ==
    [f \in Fields |->
        IF f = "SDNN" THEN get_float(attr, "SD", 0)
        ELSE IF f = "N"
             THEN (IF get_int(attr, "N", 0) = None THEN 0
                   ELSE Val(get_int(attr, "N", 0)) * RawScale)
        ELSE get_float(attr, f, 0)]

\* report.setdefault("meta", {}) and the meta.setdefault(...) calls: a key the
\* report's meta already has keeps its value
SetDefaults(report_meta, extra) ==
    [k \in DOMAIN report_meta \cup DOMAIN extra |->
        IF k \in DOMAIN report_meta THEN report_meta[k] ELSE extra[k]]

meta_extra(meta) ==
    [name |-> meta.name, sex |-> meta.sex, age |-> meta.age,
     bmi |-> meta.bmi, id |-> meta.id, test_date |-> meta.test_date,
     test_time |-> meta.test_time, height |-> meta.height,
     weight |-> meta.weight, raw_xml_attr |-> meta.raw_attr]

with_meta(report, meta) ==
    [report EXCEPT !.meta = SetDefaults(report.meta, meta_extra(meta))]

ident_of(meta) == [name |-> meta.name, age |-> meta.age, sex |-> meta.sex, bmi |-> meta.bmi]

summary_for(m, ident) == generate_summary(m, ident.name, ident.age, ident.sex, ident.bmi)

report_from(measures_meta) ==
    with_meta(summary_for(measures_meta[1], ident_of(measures_meta[2])), measures_meta[2])

\* parse_hrv_xml returns (measures, meta)
parse_hrv_xml(attr) == <<HRVMeasures(hrv_kwargs(attr)), parse_meta(attr)>>

generate_report_from_xml(attr) == report_from(parse_hrv_xml(attr))

\* ------------------------------------------------------------------------
\* Inputs
\* ------------------------------------------------------------------------
\* test/demo_tom.py: tom_hrv_data, under the upstream field names
tom_hrv_data ==
    ("HR" :> 570) @@ ("SD" :> 637) @@ ("RV" :> 18610) @@ ("ER" :> 90) @@ ("N" :> 1210)
    @@ ("TP" :> 40340) @@ ("VL" :> 18390) @@ ("LF" :> 16050) @@ ("HF" :> 5280)

\* the same measurement under the dataclass field names
TomFields ==
    ("HR" :> 570) @@ ("SDNN" :> 637) @@ ("RV" :> 18610) @@ ("TP" :> 40340)
    @@ ("LF" :> 16050) @@ ("HF" :> 5280)

NoArgs == [k \in {} |-> 0]

\* keyword arguments under the dataclass field names
ValidKwargs ==
    { TomFields, NoArgs,
      \* no frequency data: LF and HF absent; ln TP between 5.5 and 6.5
      ("HR" :> 720) @@ ("SDNN" :> 550) @@ ("RV" :> 9000) @@ ("TP" :> 4000),
      \* Tom's TP, LF and HF with another heart rate, SDNN and RV
      ("HR" :> 900) @@ ("SDNN" :> 300) @@ ("RV" :> 5000) @@ ("TP" :> 40340)
          @@ ("LF" :> 16050) @@ ("HF" :> 5280),
      \* LF = HF > 0, no total power
      ("HR" :> 400) @@ ("SDNN" :> 500) @@ ("RV" :> 8000) @@ ("LF" :> 100) @@ ("HF" :> 100),
      \* negative readings
      ("HR" :> -10) @@ ("SDNN" :> -5) @@ ("RV" :> -1) @@ ("TP" :> -50)
          @@ ("LF" :> -30) @@ ("HF" :> 20),
      \* parasympathetic, high power
      ("HR" :> 600) @@ ("SDNN" :> 499) @@ ("RV" :> 7999) @@ ("TP" :> 12000)
          @@ ("LF" :> 3000) @@ ("HF" :> 9000),
      \* sympathetic, low power
      ("HR" :> 860) @@ ("SDNN" :> 800) @@ ("RV" :> 20000) @@ ("TP" :> 2000)
          @@ ("LF" :> 900) @@ ("HF" :> 300) }

\* keyword arguments tried with HRVMeasures(**kwargs)
KwargsSet == ValidKwargs \cup {tom_hrv_data}

\* objects that are not HRVMeasures but carry some of the attributes
\* analyze_quadrant and all_levels read
ObjectSet ==
    { [cls |-> "object", attrs |-> a] : a \in
        { ("lnTP" :> 60000) @@ ("RV" :> 9000) @@ ("SDNN" :> 600),
          ("lnTP" :> 70000) @@ ("RV" :> 9000) @@ ("SDNN" :> 600) @@ ("HR" :> 700),
          ("lnLFHF" :> 1000) @@ ("RV" :> 9000) @@ ("SDNN" :> 600),
          ("lnTP" :> 50000) @@ ("lnLFHF" :> 3000) @@ ("RV" :> 100) @@ ("SDNN" :> 100)
              @@ ("HR" :> 820),
          \* lnTP on the lower edge of the balanced band
          ("lnTP" :> 55000) @@ ("lnLFHF" :> -2000) @@ ("RV" :> 9000) @@ ("SDNN" :> 600) } }

\* test/demo_from_xml.py: the attributes of <Patient .../>
demo_xml ==
    ("Name" :> <<"str", <<"TOM">> >>) @@ ("Sex" :> <<"str", <<"M">> >>)
    @@ ("ID" :> <<"num", 20251015>>) @@ ("Height" :> <<"num", 1750>>)
    @@ ("Weight" :> <<"num", 670>>) @@ ("Birthday" :> <<"str", <<"1974/06/06">> >>)
    @@ ("TestTime" :> <<"str", <<"22:12:26">> >>) @@ ("TestDate" :> <<"str", <<"2025-10-15">> >>)
    @@ ("Age" :> <<"num", 51>>) @@ ("HR" :> <<"num", 570>>) @@ ("SD" :> <<"num", 637>>)
    @@ ("RV" :> <<"num", 18610>>) @@ ("ER" :> <<"num", 90>>) @@ ("N" :> <<"num", 121>>)
    @@ ("TP" :> <<"num", 40340>>) @@ ("VL" :> <<"num", 18390>>) @@ ("LF" :> <<"num", 16050>>)
    @@ ("HF" :> <<"num", 5280>>) @@ ("NN" :> <<"num", 10510>>)
    @@ ("ANSAgeMIN" :> <<"num", -1>>) @@ ("ANSAgeMAX" :> <<"num", 20>>)
    @@ ("Balance" :> <<"num", -12>>)

XmlSet ==
    { demo_xml,
      \* <Patient/>
      [k \in {} |-> <<"str", <<>> >>],
      \* blank and unparseable texts
      ("Name" :> <<"str", <<>> >>) @@ ("Age" :> <<"str", <<"n/a">> >>)
          @@ ("Height" :> <<"num", 1600>>) @@ ("HR" :> <<"str", <<"abc">> >>)
          @@ ("SD" :> <<"str", <<>> >>) @@ ("SDNN" :> <<"num", 900>>)
          @@ ("TP" :> <<"num", 5000>>) @@ ("LF" :> <<"num", 200>>) @@ ("HF" :> <<"num", 100>>) }

NoIdent == [name |-> None, age |-> None, sex |-> None, bmi |-> None]

\* test/demo_tom.py: name="Tom", age=51, sex, bmi=67/(1.75*1.75)
TomIdent == [name |-> Some(<<"Tom">>), age |-> Some(51), sex |-> Some(<<"M">>),
             bmi |-> Some(Bmi(1750, 670))]

Idents == {NoIdent, TomIdent}

\* how many reports the caller keeps
MaxReports == 2

\* how many times callers modify the reports they hold
MaxMutations == 1

\* ------------------------------------------------------------------------
\* State
\* ------------------------------------------------------------------------
VARIABLES
    heap,      \* the advice list objects, by reference
    measures,  \* the measures object the caller holds
    given,     \* the keyword names of the latest HRVMeasures(...) call
    err,       \* "ok", or the exception that ended the run
    reports,   \* the calls that returned, oldest first
    mutations, \* how many times callers modified a report
    unit       \* the latest direct call of one function: name, arguments, result

vars == <<heap, measures, given, err, reports, mutations, unit>>

Deref(r) == heap[r.ref]

\* QUADRANT_ADVICE as a caller reads it
AdviceTable == [q \in Quadrants |-> Deref(QUADRANT_ADVICE[q])]

Init ==
    /\ heap = AdviceLiteral
    /\ measures = NoObject
    /\ given = {}
    /\ err = "ok"
    /\ reports = <<>>
    /\ mutations = 0
    /\ unit = [fn |-> "none"]

\* An exception is caught nowhere: it ends the run.
Running == err = "ok"

\* test/demo_tom.py: measures = HRVMeasures(**kwargs)
Construct(kwargs) ==
    /\ Running
    /\ given' = DOMAIN kwargs
    /\ IF InitAccepts(kwargs)
       THEN measures' = HRVMeasures(kwargs) /\ err' = "ok"
       ELSE measures' = measures /\ err' = "TypeError"
    /\ UNCHANGED <<heap, reports, mutations, unit>>

\* the caller passes some other object with attributes
UseObject(o) ==
    /\ Running
    /\ measures' = o
    /\ given' = DOMAIN o.attrs
    /\ err' = "ok"
    /\ UNCHANGED <<heap, reports, mutations, unit>>

\* what a call that returned leaves with the caller: the arguments, the
\* measures object after the call, the report (its advice a reference) and
\* the report's value at the time of the return (advice dereferenced)
Returned(via, m, g, ident, after, report) ==
    [via |-> via, obj |-> m, given |-> g, ident |-> ident, after |-> after,
     report |-> report,
     returned |-> [report EXCEPT !.advice = Deref(report.advice)]]

\* report = generate_summary(measures, name=..., age=..., sex=..., bmi=...)
GenerateSummary(ident) ==
    /\ Running
    /\ measures /= NoObject
    /\ Len(reports) < MaxReports
    /\ UNCHANGED <<heap, measures, given, mutations, unit>>
    /\ IF generate_summary_raises(measures, ident.name, ident.age, ident.sex, ident.bmi)
       THEN err' = "AttributeError" /\ reports' = reports
       ELSE /\ err' = "ok"
            /\ reports' = Append(reports,
                   Returned("generate_summary", measures, given, ident, measures',
                            summary_for(measures, ident)))

\* report = generate_report_from_xml(xml_text), xml_text a well-formed
\* <Patient .../> with the attributes attr
GenerateReportFromXml(attr) ==
    /\ Running
    /\ Len(reports) < MaxReports
    /\ measures' = parse_hrv_xml(attr)[1]
    /\ given' = Fields
    /\ err' = "ok"
    /\ reports' = Append(reports,
           Returned("generate_report_from_xml", measures', given',
                    ident_of(parse_meta(attr)), measures',
                    generate_report_from_xml(attr)))
    /\ UNCHANGED <<heap, mutations, unit>>

Next ==
    \/ \E kwargs \in KwargsSet : Construct(kwargs)
    \/ \E o \in ObjectSet : UseObject(o)
    \/ \E ident \in Idents : GenerateSummary(ident)
    \/ \E attr \in XmlSet : GenerateReportFromXml(attr)

Spec == Init /\ [][Next]_vars

\* ------------------------------------------------------------------------
\* Callers that modify the reports they were returned
\* ------------------------------------------------------------------------
\* reports[i]["advice"].append(...)
CallerAppendAdvice(i) ==
    /\ Running
    /\ mutations < MaxMutations
    /\ heap' = [heap EXCEPT ![reports[i].report.advice.ref] = Append(@, "caller's note")]
    /\ mutations' = mutations + 1
    /\ UNCHANGED <<measures, given, err, reports, unit>>

\* reports[i]["advice"].clear()
CallerClearAdvice(i) ==
    /\ Running
    /\ mutations < MaxMutations
    /\ heap' = [heap EXCEPT ![reports[i].report.advice.ref] = <<>>]
    /\ mutations' = mutations + 1
    /\ UNCHANGED <<measures, given, err, reports, unit>>

\* reports[i]["phenotypes"].append(...): the list generate_phenotypes built
\* for this report
CallerAppendPhenotype(i) ==
    /\ Running
    /\ mutations < MaxMutations
    /\ reports' = [reports EXCEPT ![i].report.phenotypes = Append(@, "caller's note")]
    /\ mutations' = mutations + 1
    /\ UNCHANGED <<heap, measures, given, err, unit>>

NextCallers ==
    \/ Next
    \/ \E i \in 1..Len(reports) : CallerAppendAdvice(i)
    \/ \E i \in 1..Len(reports) : CallerClearAdvice(i)
    \/ \E i \in 1..Len(reports) : CallerAppendPhenotype(i)

SpecCallers == Init /\ [][NextCallers]_vars

\* ------------------------------------------------------------------------
\* Direct calls of the functions, one at a time, in a fresh interpreter
\* ------------------------------------------------------------------------
\* logarithm arguments, in units of 1/LnScale
LnValues == {-207216, -10000, 0, 1, 54999, 55000, 55001, 60000, 64999, 65000, 65001, 83024}

\* RV arguments, in tenths
RvValues == {-10, 0, 7999, 8000, 8001, 14999, 15000, 15001, 18610}

\* SDNN arguments, in tenths
SdnnValues == {-5, 0, 499, 500, 501, 637, 699, 700, 701}

\* HR arguments, in tenths
HrValues == {-10, 0, 400, 401, 570, 599, 600, 800, 801, 850, 851, 1200}

\* one call per interpreter
Fresh == unit.fn = "none"

UnitFrame == UNCHANGED <<heap, measures, given, err, reports, mutations>>

CallTpLevel(x) ==
    Fresh /\ unit' = [fn |-> "tp_level", arg |-> x, result |-> tp_level(x)] /\ UnitFrame

CallRvLevel(x) ==
    Fresh /\ unit' = [fn |-> "rv_level", arg |-> x, result |-> rv_level(x)] /\ UnitFrame

CallSdnnLevel(x) ==
    Fresh /\ unit' = [fn |-> "sdnn_level", arg |-> x, result |-> sdnn_level(x)] /\ UnitFrame

CallClassifyYinYang(o) ==
    Fresh /\ unit' = [fn |-> "classify_yin_yang", arg |-> o, result |-> classify_yin_yang(o)]
    /\ UnitFrame

\* classify_xu_shi(ln_tp) with the default mu and tol
CallClassifyXuShi(o) ==
    Fresh /\ unit' = [fn |-> "classify_xu_shi", arg |-> o, result |-> classify_xu_shi(o, Mu, Tol)]
    /\ UnitFrame

CallClassifyQuadrant(yin_yang, xu_shi) ==
    Fresh /\ unit' = [fn |-> "classify_quadrant", yin_yang |-> yin_yang, xu_shi |-> xu_shi,
             result |-> classify_quadrant(yin_yang, xu_shi)]
    /\ UnitFrame

\* generate_phenotypes(m, quadrant, level_info), m an object with or without HR
CallGeneratePhenotypes(m, quadrant, level_info) ==
    Fresh /\ unit' = [fn |-> "generate_phenotypes", m |-> m, quadrant |-> quadrant,
             level_info |-> level_info,
             raw |-> phenos_raw(m, quadrant, level_info),
             result |-> generate_phenotypes(m, quadrant, level_info)]
    /\ UnitFrame

\* generate_summary(HRVMeasures(**kwargs), name, age, sex, bmi)
SummaryCall(m, ident, r) ==
    [fn |-> "generate_summary", m |-> m, ident |-> ident,
     raised |-> FALSE, report |-> r, advice |-> Deref(r.advice)]

SummaryOutcome(m, ident) ==
    IF generate_summary_raises(m, ident.name, ident.age, ident.sex, ident.bmi)
    THEN [fn |-> "generate_summary", m |-> m, ident |-> ident, raised |-> TRUE]
    ELSE SummaryCall(m, ident, summary_for(m, ident))

CallGenerateSummary(kwargs, ident) ==
    Fresh /\ unit' = SummaryOutcome(HRVMeasures(kwargs), ident) /\ UnitFrame

Optional(S) == {None} \cup {Some(v) : v \in S}

\* every combination of present and absent name, age, sex and bmi; a present
\* name or sex may be the empty string
AllIdents ==
    [name : Optional({<<"Tom">>, <<>>}), age : Optional({0, 51}),
     sex : Optional({<<"M">>}), bmi : Optional({Bmi(1750, 670)})]

LevelInfos ==
    [TP_Level : {tp_level(x) : x \in LnValues},
     RV_Level : {rv_level(x) : x \in RvValues},
     SDNN_Level : {sdnn_level(x) : x \in SdnnValues}]
    \cup {[k \in {} |-> <<>>]}

HrObjects ==
    {[cls |-> "object", attrs |-> ("HR" :> h)] : h \in HrValues}
    \cup {[cls |-> "object", attrs |-> [k \in {} |-> 0]]}

NextUnit ==
    \/ \E x \in LnValues : CallTpLevel(x)
    \/ \E x \in RvValues : CallRvLevel(x)
    \/ \E x \in SdnnValues : CallSdnnLevel(x)
    \/ \E o \in Optional(LnValues) : CallClassifyYinYang(o)
    \/ \E o \in Optional(LnValues) : CallClassifyXuShi(o)
    \/ \E yy \in {"Yang", "Yin", "Unknown"},
          xs \in {"Replete", "Deficient", "Balanced", "Unknown"} :
            CallClassifyQuadrant(yy, xs)
    \/ \E m \in HrObjects, q \in Quadrants \cup {"other"}, li \in LevelInfos :
            CallGeneratePhenotypes(m, q, li)
    \/ \E kwargs \in ValidKwargs \cup {[f \in Fields |-> 0]}, ident \in AllIdents :
            CallGenerateSummary(kwargs, ident)

SpecUnit == Init /\ [][NextUnit]_vars
\* ------------------------------------------------------------------------
\* Properties
\* ------------------------------------------------------------------------
Contains(q, x) == \E i \in 1..Len(q) : q[i] = x

NoDuplicates(q) == \A i, j \in 1..Len(q) : q[i] = q[j] => i = j

Elems(q) == {q[i] : i \in 1..Len(q)}

\* the index of the first occurrence of x in q
FirstIndex(q, x) == CHOOSE i \in 1..Len(q) : q[i] = x /\ \A j \in 1..(i - 1) : q[j] /= x

\* the tier a value falls in on a descending ladder with inclusive bounds
Ladder(x, high, mid) == IF x >= high THEN "High" ELSE IF x >= mid THEN "Mid" ELSE "Low"

Entries == {reports[i] : i \in 1..Len(reports)}

IsTom(m) ==
    /\ m.cls = "HRVMeasures"
    /\ m.attrs["HR"] = 570 /\ m.attrs["SDNN"] = 637 /\ m.attrs["RV"] = 18610
    /\ m.attrs["TP"] = 40340 /\ m.attrs["LF"] = 16050 /\ m.attrs["HF"] = 5280

\* C1: every report's quadrant is one of the six labels, and two reports whose
\* measurements have equal lnLFHF and equal lnTP have the same quadrant,
\* whatever their other fields are.
C1_QuadrantByPosition ==
    /\ \A e \in Entries : e.report.meta.quadrant \in
           {"Yang-Excess", "Yang-Deficient", "Yin-Excess", "Yin-Deficient",
            "Balanced", "Unknown"}
    /\ \A e, f \in Entries :
           (e.report.meta.lnLFHF = f.report.meta.lnLFHF
              /\ e.report.meta.lnTP = f.report.meta.lnTP)
           => e.report.meta.quadrant = f.report.meta.quadrant

\* two measurements at the same position that differ in HR, SDNN, RV and LF
C1_Witness ==
    \E e, f \in Entries :
        /\ e.obj.cls = "HRVMeasures" /\ f.obj.cls = "HRVMeasures"
        /\ e.report.meta.lnLFHF = f.report.meta.lnLFHF
        /\ e.report.meta.lnTP = f.report.meta.lnTP
        /\ e.obj.attrs["HR"] /= f.obj.attrs["HR"]
        /\ e.obj.attrs["SDNN"] /= f.obj.attrs["SDNN"]
        /\ e.obj.attrs["RV"] /= f.obj.attrs["RV"]
        /\ e.obj.attrs["LF"] /= f.obj.attrs["LF"]
        /\ e.report.meta.quadrant = f.report.meta.quadrant

\* C2: each grader puts its argument in exactly one of the three tiers, with
\* inclusive lower bounds: 6.5 and 5.5 for tp_level, 1500 and 800 for
\* rv_level, 70 and 50 for sdnn_level.
C2_InclusiveLadders ==
    /\ unit.fn = "tp_level" =>
           /\ unit.result[1] \in {"High", "Mid", "Low"}
           /\ unit.result[1] = Ladder(unit.arg, 65000, 55000)
    /\ unit.fn = "rv_level" =>
           /\ unit.result[1] \in {"High", "Mid", "Low"}
           /\ unit.result[1] = Ladder(unit.arg, 15000, 8000)
    /\ unit.fn = "sdnn_level" =>
           /\ unit.result[1] \in {"High", "Mid", "Low"}
           /\ unit.result[1] = Ladder(unit.arg, 700, 500)

\* tp_level(5.5) is Mid
C2_Witness == unit.fn = "tp_level" /\ unit.arg = 55000 /\ unit.result[1] = "Mid"

\* C3: with mu = 6.0 and tol = 0.5, classify_xu_shi gives Replete exactly for
\* lnTP >= 6.5, Deficient exactly for lnTP <= 5.5 and Balanced exactly for
\* 5.5 < lnTP < 6.5.
C3_BandEdges ==
    (unit.fn = "classify_xu_shi" /\ unit.arg /= None) =>
        /\ unit.result = "Replete" <=> Val(unit.arg) >= 65000
        /\ unit.result = "Deficient" <=> Val(unit.arg) <= 55000
        /\ unit.result = "Balanced" <=> (55000 < Val(unit.arg) /\ Val(unit.arg) < 65000)

\* classify_xu_shi(5.5) is Deficient
C3_Witness ==
    unit.fn = "classify_xu_shi" /\ unit.arg = Some(55000) /\ unit.result = "Deficient"

TomCommon(e) ==
    /\ e.report.meta.yin_yang = "Yang"
    /\ e.report.meta.xu_shi = "Replete"
    /\ e.report.meta.quadrant = "Yang-Excess"
    /\ e.report.meta.TP_Level[1] = "High"
    /\ e.report.meta.RV_Level[1] = "High"
    /\ Contains(e.report.summary, "heart rate low, maybe trained or parasympathetic")

\* C4 as stated: the report of HR=57, SDNN=63.7, RV=1861, TP=4034, LF=1605,
\* HF=528 has yinYang Yang, xuShi Replete, quadrant Yang-Excess, all three
\* levels High and the '<60' heart-rate sentence.
C4_TomAllHigh ==
    \A e \in Entries :
        IsTom(e.obj) => (TomCommon(e) /\ e.report.meta.SDNN_Level[1] = "High")

\* C4 amended: as stated, but the resilience level (SDNN 63.7, below 70 and
\* at least 50) is Mid.
C4_TomResilienceMid ==
    \A e \in Entries :
        IsTom(e.obj) => (TomCommon(e) /\ e.report.meta.SDNN_Level[1] = "Mid")

\* a report of that measurement, parsed from the demo's XML
C4_Witness ==
    \E e \in Entries : IsTom(e.obj) /\ e.via = "generate_report_from_xml"

NoFrequencyGiven(e) ==
    e.obj.cls = "HRVMeasures" /\ "LF" \notin e.given /\ "HF" \notin e.given

UnknownFallbacks(e) ==
    /\ e.report.title = <<"tendency: pending">>
    /\ Contains(e.report.summary, "description of")
    /\ Contains(e.report.summary, "Unknown")
    /\ e.report.advice = QUADRANT_ADVICE["Unknown"]

PhenotypesOk(r, raw, base, hr) ==
    /\ r /= <<>>
    /\ NoDuplicates(r)
    /\ Elems(r) = Elems(raw)
    /\ \A i, j \in 1..Len(r) : i < j => FirstIndex(raw, r[i]) < FirstIndex(raw, r[j])
    /\ Len(r) >= Len(base) /\ SubSeq(r, 1, Len(base)) = base
    /\ hr /= <<>> => r[Len(r)] = hr[1]

\* C6: the list generate_phenotypes returns has no duplicates, holds the
\* entries of the undeduplicated sequence in the order of their first
\* occurrence (the quadrant's base statements first, the heart-rate statement
\* last), and is not empty.
C6_PhenotypesUniqueOrdered ==
    unit.fn = "generate_phenotypes" =>
        PhenotypesOk(unit.result, unit.raw, QuadrantBase(unit.quadrant),
                     HrStatement(HrOf(unit.m)))

\* a list with base, level and heart-rate statements
C6_Witness ==
    /\ unit.fn = "generate_phenotypes"
    /\ unit.quadrant = "Balanced"
    /\ Len(unit.result) = 7

C8_CallsIndependent ==
    /\ AdviceTable = AdviceLiteral
    /\ \A e \in Entries : e.after = e.obj
    /\ \A i, j \in 1..Len(reports) :
           (i < j /\ reports[i].obj = reports[j].obj /\ reports[i].ident = reports[j].ident
                  /\ reports[i].via = reports[j].via)
           => reports[j].returned = reports[i].returned

\* C9 as stated: HRVMeasures(**tom_hrv_data) succeeds, and generate_summary on
\* it returns a report with title, summary, phenotypes, advice and meta.
C9_DemoRecordBuilds ==
    /\ given = DOMAIN tom_hrv_data => (err = "ok" /\ measures.cls = "HRVMeasures")
    /\ \A e \in Entries :
           e.given = DOMAIN tom_hrv_data =>
               {"title", "summary", "phenotypes", "advice", "meta"} \subseteq DOMAIN e.report

\* C10: classify_quadrant gives the table value for Yang/Yin x
\* Replete/Deficient; otherwise Balanced when xu_shi is Balanced, whatever
\* yin_yang is; otherwise Unknown.
C10_TwoStageFallback ==
    unit.fn = "classify_quadrant" =>
        unit.result =
            IF unit.yin_yang \in {"Yang", "Yin"} /\ unit.xu_shi \in {"Replete", "Deficient"}
            THEN (IF unit.yin_yang = "Yang"
                  THEN (IF unit.xu_shi = "Replete" THEN "Yang-Excess" ELSE "Yang-Deficient")
                  ELSE (IF unit.xu_shi = "Replete" THEN "Yin-Excess" ELSE "Yin-Deficient"))
            ELSE IF unit.xu_shi = "Balanced" THEN "Balanced"
            ELSE "Unknown"

\* classify_quadrant(Unknown, Balanced) is Balanced
C10_Witness ==
    /\ unit.fn = "classify_quadrant"
    /\ unit.yin_yang = "Unknown" /\ unit.xu_shi = "Balanced"
    /\ unit.result = "Balanced"

\* the three heart-rate statements of generate_phenotypes
HrStatements ==
    {"heart rate fast at measurement, tense or busy mind",
     "heart rate in the resting range at measurement",
     "heart rate slow at measurement, possibly trained"}

HrOccurrences(q) == Cardinality({i \in 1..Len(q) : q[i] \in HrStatements})

\* C11: the list generate_phenotypes returns holds at most one heart-rate
\* statement: the fast one exactly when hr > 85, the resting one exactly when
\* 60 <= hr <= 80, the slow one exactly when 40 < hr < 60, and none when
\* 80 < hr <= 85 or hr <= 40, which includes an object without HR (hr = 0).
C11_HeartRateStatement ==
    unit.fn = "generate_phenotypes" =>
        /\ HrOccurrences(unit.result) <= 1
        /\ Contains(unit.result, "heart rate fast at measurement, tense or busy mind")
              <=> HrOf(unit.m) > 850
        /\ Contains(unit.result, "heart rate in the resting range at measurement")
              <=> (600 <= HrOf(unit.m) /\ HrOf(unit.m) <= 800)
        /\ Contains(unit.result, "heart rate slow at measurement, possibly trained")
              <=> (400 < HrOf(unit.m) /\ HrOf(unit.m) < 600)
        /\ ((800 < HrOf(unit.m) /\ HrOf(unit.m) <= 850) \/ HrOf(unit.m) <= 400)
              => HrOccurrences(unit.result) = 0
        /\ ~ HasAttr(unit.m, "HR") => HrOccurrences(unit.result) = 0

\* a call with hr = 85.0, in the gap between the resting and the fast range
C11_Witness ==
    /\ unit.fn = "generate_phenotypes"
    /\ HasAttr(unit.m, "HR") /\ HrOf(unit.m) = 850
    /\ unit.result /= <<>>
    /\ HrOccurrences(unit.result) = 0

\* the vertical-axis class and the total-power grade of one report agree
AxisAgreesWithGrade(meta) ==
    /\ meta.xu_shi = "Replete" <=> meta.TP_Level[1] = "High"
    /\ meta.xu_shi = "Balanced" => meta.TP_Level[1] = "Mid"
    /\ meta.TP_Level[1] = "Low" => meta.xu_shi = "Deficient"
    /\ (meta.xu_shi = "Deficient" /\ meta.TP_Level[1] = "Mid") => meta.lnTP = Some(55000)

\* C12: in every report xu_shi is Replete exactly when TP_Level is High,
\* Balanced implies TP_Level Mid, TP_Level Low implies Deficient, and
\* Deficient is reported together with TP_Level Mid only for lnTP = 5.5.
C12_AxisAgreesWithGrade ==
    \A e \in Entries : AxisAgreesWithGrade(e.returned.meta)

\* a report for lnTP = 5.5: Deficient on the axis, Mid as the grade
C12_Witness ==
    \E e \in Entries :
        /\ e.returned.meta.lnTP = Some(55000)
        /\ e.returned.meta.xu_shi = "Deficient"
        /\ e.returned.meta.TP_Level[1] = "Mid"

====
